---- MODULE Spec2Model ----
(***************************************************************************)
(* Model of src/fix_types.py: the regex-driven signature fixer, the        *)
(* line-by-line declaration fixer, the file processor and the batch        *)
(* driver.                                                                 *)
(*                                                                         *)
(* Text is a sequence of lexemes.  Each lexeme is a literal piece of text  *)
(* (a run of word characters, one whitespace character, or one punctuation *)
(* character); the text a sequence stands for is the concatenation of its  *)
(* lexemes.  The lexeme alphabet is uniquely decodable (no lexeme is a     *)
(* concatenation of others, and none contains another keyword), so two     *)
(* sequences are equal exactly when the texts are equal.  Adjacent word    *)
(* lexemes form one longer word ("add","x" is the word addx), which is how *)
(* the regular expressions' \w+ and the literal alternations are tested    *)
(* against names that merely start with a keyword.                         *)
(***************************************************************************)
EXTENDS Naturals, Sequences, FiniteSets

VARIABLES
    content,        \* the text buffer being transformed (fix_file's `content`)
    original,       \* the text as read (fix_file's `original_content`)
    step,           \* position in the pure-function specifications
    wrote,          \* pipeline spec: whether each pass wrote the buffer back
    disk,           \* batch: path -> text on disk
    disk0,          \* batch: path -> text on disk before the run
    files,          \* batch: sorted(test_files), the iteration order of main
    idx,            \* batch: index of the next file of the for loop
    total_count,    \* main's total_count
    fixed_count,    \* main's fixed_count
    status,         \* batch: path -> line printed by fix_file for it
    writes,         \* batch: path -> number of times opened for writing
    log,            \* batch: paths in the order fix_file was called
    summary,        \* batch: the three numbers printed at the end
    pc              \* batch: position in main

vars == <<content, original, step, wrote, disk, disk0, files, idx, total_count,
          fixed_count, status, writes, log, summary, pc>>

-----------------------------------------------------------------------------
(* Lexemes and the character classes of the regular expressions.            *)

MathNames2 == {"add", "multiply", "subtract", "divide", "max", "min", "calc", "compute"}

MathNames1 == {"factorial", "fibonacci", "square", "abs"}

DeclKeywords == {"let", "const", "var"}

DigitTokens == {"5"}

WordTokens ==
    MathNames2 \cup MathNames1 \cup DeclKeywords \cup DigitTokens
        \cup {"function", "greet", "a", "b", "x", "total", "obj", "void", "number"}

WsTokens == {" ", "\n"}

\* Mutant of IsWs: \s written as a literal blank, so a line break is no whitespace.
IsBlankOnly(t) == t = " "

IsWs(t) == t \in WsTokens

IsWord(t) == t \in WordTokens

IsIdentStart(t) == t \in WordTokens \ DigitTokens

RECURSIVE SkipWs(_, _)
SkipWs(s, i) ==
    IF i <= Len(s) /\ IsWs(s[i]) THEN SkipWs(s, i + 1) ELSE i

RECURSIVE SkipWord(_, _)
SkipWord(s, i) ==
    IF i <= Len(s) /\ IsWord(s[i]) THEN SkipWord(s, i + 1) ELSE i

At(s, i, t) == i <= Len(s) /\ s[i] = t

-----------------------------------------------------------------------------
(* fix_function_signatures                                                  *)

NoMatch == [ok |-> FALSE, end |-> 0, name |-> <<>>, p1 |-> <<>>, p2 |-> <<>>]

\* function\s+(NAME)\s*\(\s*(\w+)\s*   -- the part the four patterns share.
\* names = {} stands for (\w+); otherwise the alternation of those literals.
MatchHead(s, i, names) ==
    IF ~At(s, i, "function") THEN NoMatch
    ELSE LET b == SkipWs(s, i + 1)
             c == SkipWord(s, b)
             d == SkipWs(s, c)
             e == SkipWs(s, d + 1)
             f == SkipWord(s, e)
         IN  IF /\ b > i + 1
                /\ c > b
                /\ (names = {} \/ (c = b + 1 /\ s[b] \in names))
                /\ At(s, d, "(")
                /\ f > e
             THEN [ok |-> TRUE, end |-> f, name |-> SubSeq(s, b, c - 1),
                   p1 |-> SubSeq(s, e, f - 1), p2 |-> <<>>]
             ELSE NoMatch

\* \s*,\s*(\w+)   -- the second parameter of the two-parameter patterns.
MatchSecond(s, m) ==
    IF ~m.ok THEN NoMatch
    ELSE LET g == SkipWs(s, m.end)
             h == SkipWs(s, g + 1)
             k == SkipWord(s, h)
         IN  IF At(s, g, ",") /\ k > h
             THEN [m EXCEPT !.end = k, !.p2 = SubSeq(s, h, k - 1)]
             ELSE NoMatch

\* \s*\)   followed, when ret, by   \s*:\s*void   and then by   \s*{
MatchTail(s, m, ret) ==
    IF ~m.ok THEN NoMatch
    ELSE LET l == SkipWs(s, m.end)
             n == SkipWs(s, l + 1)
             o == SkipWs(s, n + 1)
             q == SkipWs(s, o + 1)
             z == IF ret THEN q ELSE n
         IN  IF /\ At(s, l, ")")
                /\ (ret => At(s, n, ":") /\ At(s, o, "void"))
                /\ At(s, z, "{")
             THEN [m EXCEPT !.end = z + 1]
             ELSE NoMatch

NumberParam(p) == p \o <<":", " ", "number">>

\* function \1(\2: number, \3: number): RET {     and its one-parameter form
Template(m, two, retType) ==
    <<"function", " ">> \o m.name \o <<"(">> \o NumberParam(m.p1)
        \o (IF two THEN <<",", " ">> \o NumberParam(m.p2) ELSE <<>>)
        \o <<")", ":", " ", retType, " ", "{">>

\* Mutant of patterns: the first two rules write number instead of void.
patternsNumber ==
    << [names |-> {},         two |-> TRUE,  ret |-> FALSE, retType |-> "number"],
       [names |-> {},         two |-> FALSE, ret |-> FALSE, retType |-> "number"],
       [names |-> MathNames2, two |-> TRUE,  ret |-> TRUE,  retType |-> "number"],
       [names |-> MathNames1, two |-> FALSE, ret |-> TRUE,  retType |-> "number"] >>

\* The ordered pattern table: which names, how many parameters, whether the
\* pattern requires an existing `: void`, and the return type it writes.
patterns ==
    << [names |-> {},         two |-> TRUE,  ret |-> FALSE, retType |-> "void"],
       [names |-> {},         two |-> FALSE, ret |-> FALSE, retType |-> "void"],
       [names |-> MathNames2, two |-> TRUE,  ret |-> TRUE,  retType |-> "number"],
       [names |-> MathNames1, two |-> FALSE, ret |-> TRUE,  retType |-> "number"] >>

\* re.match of pattern r at position i of s.
MatchPattern(r, s, i) ==
    LET p == patterns[r]
        h == MatchHead(s, i, p.names)
    IN  MatchTail(s, IF p.two THEN MatchSecond(s, h) ELSE h, p.ret)

\* re.sub(pattern, replacement, content): leftmost, non-overlapping, global.
RECURSIVE ReSubFrom(_, _, _)
ReSubFrom(r, s, i) ==
    IF i > Len(s) THEN <<>>
    ELSE LET m == MatchPattern(r, s, i)
         IN  IF m.ok
             THEN Template(m, patterns[r].two, patterns[r].retType) \o ReSubFrom(r, s, m.end)
             ELSE <<s[i]>> \o ReSubFrom(r, s, i + 1)

ReSub(r, s) == ReSubFrom(r, s, 1)

RECURSIVE ApplyPatterns(_, _)
ApplyPatterns(r, s) ==
    IF r > Len(patterns) THEN s ELSE ApplyPatterns(r + 1, ReSub(r, s))

fix_function_signatures(s) == ApplyPatterns(1, s)

-----------------------------------------------------------------------------
(* fix_variable_declarations                                                *)

RECURSIVE FirstNewline(_, _)
FirstNewline(s, i) ==
    IF i > Len(s) \/ s[i] = "\n" THEN i ELSE FirstNewline(s, i + 1)

\* content.split('\n')
RECURSIVE Split(_)
Split(s) ==
    LET k == FirstNewline(s, 1)
    IN  IF k > Len(s) THEN <<s>>
        ELSE <<SubSeq(s, 1, k - 1)>> \o Split(SubSeq(s, k + 1, Len(s)))

\* '\n'.join(fixed_lines)
RECURSIVE Join(_)
Join(ls) ==
    IF Len(ls) = 0 THEN <<>>
    ELSE IF Len(ls) = 1 THEN ls[1]
    ELSE ls[1] \o <<"\n">> \o Join(Tail(ls))

RECURSIVE RStrip(_)
RStrip(t) ==
    IF Len(t) > 0 /\ IsWs(t[Len(t)]) THEN RStrip(SubSeq(t, 1, Len(t) - 1)) ELSE t

\* line.strip()
Strip(t) == RStrip(SubSeq(t, SkipWs(t, 1), Len(t)))

\* [a-zA-Z_]\w*\s*=   matched at position a of t
AssignAt(t, a) ==
    /\ a <= Len(t)
    /\ IsIdentStart(t[a])
    /\ At(t, SkipWs(t, SkipWord(t, a + 1)), "=")

\* re.match(r'^[a-zA-Z_]\w*\s*=\s*', t)
IsBareAssignment(t) == AssignAt(t, 1)

\* re.match(r'^\s*(let|const|var)\s+', t)
IsDeclared(t) ==
    LET a == SkipWs(t, 1)
    IN  /\ a <= Len(t)
        /\ t[a] \in DeclKeywords
        /\ SkipWs(t, a + 1) > a + 1

\* Mutant of AddLet: the replacement written r'\1let\2', without the blank.
AddLetNoBlank(line) ==
    LET a == SkipWs(line, 1)
    IN  IF AssignAt(line, a)
        THEN SubSeq(line, 1, a - 1) \o <<"let">> \o SubSeq(line, a, Len(line))
        ELSE line

\* Mutant of AddLet: the replacement written r'let \1\2', before the indentation.
AddLetAtFront(line) ==
    LET a == SkipWs(line, 1)
    IN  IF AssignAt(line, a) THEN <<"let", " ">> \o line ELSE line

\* re.sub(r'^(\s*)([a-zA-Z_]\w*\s*=)', r'\1let \2', line)
AddLet(line) ==
    LET a == SkipWs(line, 1)
    IN  IF AssignAt(line, a)
        THEN SubSeq(line, 1, a - 1) \o <<"let", " ">> \o SubSeq(line, a, Len(line))
        ELSE line

\* Mutant of FixLine: the untouched lines appended stripped.
FixLineStripped(line) ==
    IF IsBareAssignment(Strip(line)) /\ ~IsDeclared(Strip(line))
    THEN SubSeq(line, 1, SkipWs(line, 1) - 1) \o <<"let", " ">>
            \o SubSeq(line, SkipWs(line, 1), Len(line))
    ELSE Strip(line)

\* The body of the for loop over the lines.
FixLine(line) ==
    IF IsBareAssignment(Strip(line)) /\ ~IsDeclared(Strip(line))
    THEN AddLet(line)
    ELSE line

fix_variable_declarations(s) ==
    LET lines == Split(s)
    IN  Join([i \in 1..Len(lines) |-> FixLine(lines[i])])

\* The two fixers in the order fix_file applies them.
Fix(s) == fix_variable_declarations(fix_function_signatures(s))

\* Mutant of Changed: the file is written back whatever the comparison says.
AlwaysChanged(new, old) == TRUE

\* content != original_content
Changed(new, old) == new # old

-----------------------------------------------------------------------------
(* Inputs of the pure-function specifications.                              *)

MaxBreaks == 3

MaxDeclLen == 5

MaxPasses == 2

GapWs == {<<>>, <<" ">>, <<"\n">>}

\* The whitespace of `function NAME(A, B) {`: after function, after the name,
\* after (, after A, after the comma, after B, after ).
CanonicalGap == <<<<" ">>, <<>>, <<>>, <<>>, <<" ">>, <<>>, <<" ">>>>

GapLayouts ==
    {g \in [1..7 -> GapWs] : Cardinality({p \in 1..7 : g[p] # CanonicalGap[p]}) <= MaxBreaks}

RECURSIVE ParamsText(_, _)
ParamsText(ps, g) ==
    IF Len(ps) = 0 THEN <<>>
    ELSE IF Len(ps) = 1 THEN ps[1] \o g[6]
    ELSE ps[1] \o g[4] \o <<",">> \o g[5] \o ParamsText(Tail(ps), g)

Signature(name, ps, g, ret) ==
    <<"function">> \o g[1] \o name \o g[2] \o <<"(">> \o g[3]
        \o ParamsText(ps, g) \o <<")">> \o ret \o g[7] \o <<"{">>

VocabularyNames == {<<n>> : n \in MathNames2 \cup MathNames1}

OtherNames == {<<"greet">>, <<"add", "x">>, <<"x", "5">>}

ParamNames == {<<"a">>, <<"b">>, <<"x", "5">>}

ParamLists ==
    {<<>>} \cup {<<p>> : p \in ParamNames}
        \cup {<<p, q>> : p \in ParamNames, q \in {<<"a">>, <<"b">>}}
        \cup {<<<<"a">>, <<"b">>, <<"x">>>>}

Returns == {<<>>, <<":", " ", "void">>, <<":", " ", "number">>}

SigInputs ==
    {Signature(n, ps, CanonicalGap, r) :
        n \in VocabularyNames \cup OtherNames, ps \in ParamLists, r \in Returns}
    \cup
    {Signature(n, ps, g, <<>>) :
        n \in {<<"add">>, <<"square">>, <<"greet">>},
        ps \in {<<<<"a">>>>, <<<<"a">>, <<"b">>>>},
        g \in GapLayouts}

DeclAlphabet == {"x", "let", "5", " ", "=", ".", "\n"}

DeclExamples ==
    { <<"total", " ", "=", " ", "5", ";">>,
      <<"let", " ", "total", " ", "=", " ", "5", ";">>,
      <<"obj", ".", "total", " ", "=", " ", "5", ";">>,
      <<" ", " ", "total", " ", "=", " ", "5", ";">>,
      <<"a", " ", "=", "=", " ", "b">>,
      <<"a", "[", "5", "]", " ", "=", " ", "5">>,
      <<"a", ".", "b", " ", "=", " ", "5">>,
      <<"const", " ", "x", " ", "=", " ", "5">>,
      <<"var", " ", "x", " ", "=", " ", "5">> }

DeclInputs ==
    UNION {[1..n -> DeclAlphabet] : n \in 0..MaxDeclLen} \cup DeclExamples

BatchIdle ==
    /\ disk = <<>> /\ disk0 = <<>> /\ files = <<>> /\ idx = 0
    /\ total_count = 0 /\ fixed_count = 0 /\ status = <<>> /\ writes = <<>>
    /\ log = <<>> /\ summary = <<>> /\ pc = "none"

batchVars == <<disk, disk0, files, idx, total_count, fixed_count, status, writes,
               log, summary, pc>>

-----------------------------------------------------------------------------
(* SpecSig: the loop of fix_function_signatures, one pattern per step.      *)

InitSig ==
    /\ content \in SigInputs
    /\ original = content
    /\ step = 1
    /\ wrote = <<>>
    /\ BatchIdle

ApplyPattern ==
    /\ step <= Len(patterns)
    /\ content' = ReSub(step, content)
    /\ step' = step + 1
    /\ UNCHANGED <<original, wrote, batchVars>>

SpecSig == InitSig /\ [][ApplyPattern]_vars

-----------------------------------------------------------------------------
(* SpecDecl: fix_variable_declarations applied to a buffer.                 *)

InitDecl ==
    /\ content \in DeclInputs
    /\ original = content
    /\ step = 0
    /\ wrote = <<>>
    /\ BatchIdle

DeclFix ==
    /\ step = 0
    /\ content' = fix_variable_declarations(content)
    /\ step' = 1
    /\ UNCHANGED <<original, wrote, batchVars>>

SpecDecl == InitDecl /\ [][DeclFix]_vars

-----------------------------------------------------------------------------
(* SpecPipe: the transformation of fix_file (both fixers, the comparison    *)
(* and the write-back) run again and again on its own output, without I/O   *)
(* failures.                                                                *)

MixedInputs ==
    {s \o <<"\n">> \o d :
        s \in {Signature(n, <<<<"a">>, <<"b">>>>, CanonicalGap, r) :
                  n \in {<<"add">>, <<"greet">>}, r \in Returns},
        d \in DeclExamples}
    \cup
    {d \o <<"\n">> \o <<t>> \o s :
        s \in {Signature(n, <<<<"x">>>>, CanonicalGap, r) :
                  n \in {<<"square">>, <<"function">>}, r \in Returns},
        t \in {" ", "function", "x", "="},
        d \in DeclExamples}

PipeInputs == SigInputs \cup DeclInputs \cup MixedInputs

InitPipe ==
    /\ content \in PipeInputs
    /\ original = content
    /\ step = 0
    /\ wrote = <<>>
    /\ BatchIdle

\* One call of fix_file on the buffer: original_content = content, the two
\* fixers, and the write-back (kept in `content`) when the text changed.
FixPass ==
    /\ step < MaxPasses
    /\ original' = content
    /\ content' = Fix(content)
    /\ wrote' = Append(wrote, Changed(Fix(content), content))
    /\ step' = step + 1
    /\ UNCHANGED batchVars

SpecPipe == InitPipe /\ [][FixPass]_vars

-----------------------------------------------------------------------------
(* Spec: main and fix_file over a directory of files.                       *)

MaxFiles == 2

\* File names as sequences of code points, the common prefix tests/ left out:
\* a.tg, ab.tg, a-.tg, b.tg  (46 '.', 45 '-', 97 'a', 98 'b', 116 't', 103 'g').
PathPool ==
    { <<97, 46, 116, 103>>, <<97, 98, 46, 116, 103>>,
      <<97, 45, 46, 116, 103>>, <<98, 46, 116, 103>> }

BatchTexts ==
    { <<>>,
      <<"function", " ", "add", "(", "a", ",", " ", "b", ")", " ", "{">>,
      <<"total", " ", "=", " ", "5">>,
      <<"let", " ", "total", " ", "=", " ", "5">>,
      <<"function", " ", "greet", "(", "a", ")", " ", "{", "\n", " ", "x", "=", "5">> }

\* Python's str comparison: the first differing code point decides, and a
\* proper prefix is smaller.
RECURSIVE LexLess(_, _)
LexLess(p, q) ==
    IF Len(q) = 0 THEN FALSE
    ELSE IF Len(p) = 0 THEN TRUE
    ELSE IF p[1] # q[1] THEN p[1] < q[1]
    ELSE LexLess(Tail(p), Tail(q))

RECURSIVE Insert(_, _)
Insert(x, sq) ==
    IF Len(sq) = 0 THEN <<x>>
    ELSE IF LexLess(x, sq[1]) THEN <<x>> \o sq
    ELSE <<sq[1]>> \o Insert(x, Tail(sq))

\* Mutant of sorted: the files taken in glob's order.
unsorted(sq) == sq

\* sorted(test_files)
RECURSIVE sorted(_)
sorted(sq) ==
    IF Len(sq) = 0 THEN <<>> ELSE Insert(sq[1], sorted(Tail(sq)))

\* glob.glob('tests/*.tg'): the directory's files in an arbitrary order.
Glob(dir) ==
    {g \in [1..Cardinality(dir) -> dir] : \A i, j \in DOMAIN g : i # j => g[i] # g[j]}

\* What the file system does to one call of fix_file.
IoOutcomes == {"ok", "read_error", "open_error", "write_error"}

\* What a failed write can leave behind: the file was truncated on open and
\* nothing, or all but the end of the new text, reached it.
Partial(new) == {<<>>, SubSeq(new, 1, Len(new) - 1)}

\* Mutant of Tally: every file counted as fixed.
TallyAll(count, fixed) == count + 1

\* fixed_count after one iteration of main's loop.
Tally(count, fixed) == IF fixed THEN count + 1 ELSE count

Init ==
    /\ content = <<>> /\ original = <<>> /\ step = 0 /\ wrote = <<>>
    /\ \E dir \in SUBSET PathPool :
          /\ Cardinality(dir) <= MaxFiles
          /\ disk0 \in [dir -> BatchTexts]
    /\ disk = disk0
    /\ files = <<>>
    /\ idx = 0
    /\ total_count = 0
    /\ fixed_count = 0
    /\ status = [f \in DOMAIN disk0 |-> "none"]
    /\ writes = [f \in DOMAIN disk0 |-> 0]
    /\ log = <<>>
    /\ summary = <<>>
    /\ pc = "start"

\* main up to the for loop.
Start ==
    /\ pc = "start"
    /\ \E test_files \in Glob(DOMAIN disk) :
          /\ total_count' = Len(test_files)
          /\ files' = sorted(test_files)
    /\ fixed_count' = 0
    /\ idx' = 1
    /\ pc' = "loop"
    /\ UNCHANGED <<content, original, step, wrote, disk, disk0, status, writes, log, summary>>

\* One iteration of main's loop: fix_file(filepath) and the tally.
FixFile ==
    /\ pc = "loop"
    /\ idx <= Len(files)
    /\ \E io \in IoOutcomes :
        LET filepath == files[idx]
            new == Fix(disk[filepath])
        IN  IF io = "read_error"
            THEN /\ status' = [status EXCEPT ![filepath] = "read_error"]
                 /\ fixed_count' = Tally(fixed_count, FALSE)
                 /\ UNCHANGED <<disk, writes>>
            ELSE IF ~Changed(new, disk[filepath])
            THEN /\ status' = [status EXCEPT ![filepath] = "skipped"]
                 /\ fixed_count' = Tally(fixed_count, FALSE)
                 /\ UNCHANGED <<disk, writes>>
            ELSE IF io = "ok"
            THEN /\ disk' = [disk EXCEPT ![filepath] = new]
                 /\ writes' = [writes EXCEPT ![filepath] = @ + 1]
                 /\ status' = [status EXCEPT ![filepath] = "fixed"]
                 /\ fixed_count' = Tally(fixed_count, TRUE)
            ELSE IF io = "open_error"
            THEN /\ status' = [status EXCEPT ![filepath] = "write_error"]
                 /\ fixed_count' = Tally(fixed_count, FALSE)
                 /\ UNCHANGED <<disk, writes>>
            ELSE /\ \E left \in Partial(new) : disk' = [disk EXCEPT ![filepath] = left]
                 /\ writes' = [writes EXCEPT ![filepath] = @ + 1]
                 /\ status' = [status EXCEPT ![filepath] = "write_error"]
                 /\ fixed_count' = Tally(fixed_count, FALSE)
    /\ log' = Append(log, files[idx])
    /\ idx' = idx + 1
    /\ UNCHANGED <<content, original, step, wrote, disk0, files, total_count, summary, pc>>

\* The summary main prints after the loop.
Summary ==
    /\ pc = "loop"
    /\ idx > Len(files)
    /\ summary' = [total |-> total_count, fixed |-> fixed_count,
                   skipped |-> total_count - fixed_count]
    /\ pc' = "done"
    /\ UNCHANGED <<content, original, step, wrote, disk, disk0, files, idx,
                   total_count, fixed_count, status, writes, log>>

Next == Start \/ FixFile \/ Summary

Spec == Init /\ [][Next]_vars

-----------------------------------------------------------------------------
(* Vocabulary of the properties: texts written out lexeme by lexeme, and    *)
(* the lines of a text found from the positions of its line breaks.         *)

\* function NAME(A) {
Untyped1(n, a) == <<"function", " ">> \o n \o <<"(">> \o a \o <<")", " ", "{">>

\* function NAME(A, B) {
Untyped2(n, a, b) ==
    <<"function", " ">> \o n \o <<"(">> \o a \o <<",", " ">> \o b \o <<")", " ", "{">>

\* function NAME(A: number): R {
Annotated1(n, a, r) ==
    <<"function", " ">> \o n \o <<"(">> \o a \o <<":", " ", "number", ")", ":", " ", r, " ", "{">>

\* function NAME(A: number, B: number): R {
Annotated2(n, a, b, r) ==
    <<"function", " ">> \o n \o <<"(">> \o a \o <<":", " ", "number", ",", " ">> \o b
        \o <<":", " ", "number", ")", ":", " ", r, " ", "{">>

HasNewline(s) == \E i \in DOMAIN s : s[i] = "\n"

NoWs(s) == SelectSeq(s, LAMBDA t : t \notin {" ", "\n"})

Breaks(s) == {i \in DOMAIN s : s[i] = "\n"}

LineCount(s) == Cardinality(Breaks(s)) + 1

\* Position of the n-th line break of s; 0 before the first line, Len(s) + 1
\* after the last.
NthBreak(s, n) ==
    IF n = 0 THEN 0
    ELSE IF n > Cardinality(Breaks(s)) THEN Len(s) + 1
    ELSE CHOOSE p \in Breaks(s) : Cardinality({b \in Breaks(s) : b < p}) = n - 1

Line(s, n) == SubSeq(s, NthBreak(s, n - 1) + 1, NthBreak(s, n) - 1)

\* Number of whitespace lexemes a line starts with.
Lead(l) ==
    CHOOSE k \in 0..Len(l) :
        /\ \A j \in 1..k : l[j] \in {" ", "\n"}
        /\ (k = Len(l) \/ l[k + 1] \notin {" ", "\n"})

Rest(l) == SubSeq(l, Lead(l) + 1, Len(l))

WithLet(l) == SubSeq(l, 1, Lead(l)) \o <<"let", " ">> \o Rest(l)

\* The line, trimmed, is an identifier, optional blanks, then the lexemes eq.
IdentThen(l, eq) ==
    LET r == Rest(l)
    IN  \E e \in 1..Len(r) : \E q \in (e + 1)..Len(r) :
            /\ r[1] \in WordTokens \ DigitTokens
            /\ \A j \in 2..e : r[j] \in WordTokens
            /\ \A j \in (e + 1)..(q - 1) : r[j] = " "
            /\ q + Len(eq) - 1 <= Len(r)
            /\ \A k \in 1..Len(eq) : r[q + k - 1] = eq[k]

\* The line, trimmed, starts with let, const or var and whitespace.
StartsDeclared(l) ==
    LET r == Rest(l)
    IN  Len(r) >= 2 /\ r[1] \in {"let", "const", "var"} /\ r[2] = " "

\* fix_function_signatures has applied all of its patterns.
SigDone == step = Len(patterns) + 1

-----------------------------------------------------------------------------
(* Signature Fixer                                                          *)

\* C1 (as stated): after the four rules, an untyped signature whose name is
\* in the math vocabulary has return type number -- two parameters for
\* add..compute, one parameter for factorial..abs.
C1_MathNamesReturnNumber ==
    SigDone =>
        /\ \A n \in MathNames2 : \A a \in ParamNames : \A b \in ParamNames :
              original = Untyped2(<<n>>, a, b) => content = Annotated2(<<n>>, a, b, "number")
        /\ \A n \in MathNames1 : \A a \in ParamNames :
              original = Untyped1(<<n>>, a) => content = Annotated1(<<n>>, a, "number")

\* C6: after the four rules, an untyped one- or two-parameter signature whose
\* name is outside the math vocabulary has number parameters and return type
\* void.
C6_OtherNamesReturnVoid ==
    SigDone =>
        \A n \in OtherNames : \A a \in ParamNames : \A b \in ParamNames :
            /\ original = Untyped1(n, a) => content = Annotated1(n, a, "void")
            /\ original = Untyped2(n, a, b) => content = Annotated2(n, a, b, "void")

C6_Witness ==
    /\ SigDone
    /\ original = Untyped1(<<"greet">>, <<"a">>)
    /\ content = Annotated1(<<"greet">>, <<"a">>, "void")

\* C5 (as stated): a signature with a line break somewhere between its parts
\* is matched by no rule, so the text stays as it was after every rule.
C5_MultiLineUnchanged ==
    HasNewline(original) => content = original

\* The untyped one- and two-parameter signatures of the inputs, whatever the
\* whitespace between their parts, with the annotated text of each.
ShapeOf(s) ==
    {sh \in [untyped : {NoWs(s)}, name : {<<"add">>, <<"square">>, <<"greet">>},
             p1 : ParamNames, p2 : ParamNames \cup {<<>>}] :
        sh.untyped = <<"function">> \o sh.name \o <<"(">> \o sh.p1
                        \o (IF sh.p2 = <<>> THEN <<>> ELSE <<",">> \o sh.p2) \o <<")", "{">>}

AnnotatedShape(sh, r) ==
    IF sh.p2 = <<>> THEN Annotated1(sh.name, sh.p1, r)
    ELSE Annotated2(sh.name, sh.p1, sh.p2, r)

\* C5 (amended): a signature whose line breaks fall between its parts, with
\* whitespace after `function`, is recognized and rewritten onto one line:
\* function NAME(A: number[, B: number]): R {  with R void or number.
C5_MultiLineRewritten ==
    (SigDone /\ HasNewline(original) /\ original[2] \in {" ", "\n"}) =>
        \A sh \in ShapeOf(original) :
            \E r \in {"void", "number"} : content = AnnotatedShape(sh, r)

C5_Witness ==
    /\ SigDone
    /\ HasNewline(original)
    /\ ShapeOf(original) # {}
    /\ ~HasNewline(content)
    /\ content # original

-----------------------------------------------------------------------------
(* Declaration Fixer                                                        *)

\* C3 (as stated): every line that is not a bare assignment comes out as it
\* went in: blank lines, lines whose first content is an identifier followed
\* by ==, by a member access or by an index, and lines that start with let,
\* const or var.
C3_NonAssignmentsUnchanged ==
    step = 1 =>
        \A i \in 1..LineCount(original) :
            LET l == Line(original, i)
            IN  (\/ Rest(l) = <<>>
                 \/ IdentThen(l, <<"=", "=">>)
                 \/ IdentThen(l, <<".">>)
                 \/ IdentThen(l, <<"[">>)
                 \/ StartsDeclared(l))
                => Line(content, i) = l

\* C4: a line that, trimmed, starts with an identifier followed by = and not
\* with let/const/var and whitespace, comes out with `let ` put right before
\* the identifier, its leading whitespace kept; `let total = 5;` and
\* `obj.total = 5;` come out unchanged.
C4_LetInserted ==
    step = 1 =>
        /\ LineCount(content) = LineCount(original)
        /\ \A i \in 1..LineCount(original) :
              LET l == Line(original, i)
              IN  (IdentThen(l, <<"=">>) /\ ~StartsDeclared(l))
                  => Line(content, i) = WithLet(l)
        /\ original \in { <<"let", " ", "total", " ", "=", " ", "5", ";">>,
                          <<"obj", ".", "total", " ", "=", " ", "5", ";">> }
              => content = original

C4_Witness ==
    /\ step = 1
    /\ original = <<" ", " ", "total", " ", "=", " ", "5", ";">>
    /\ content = <<" ", " ", "let", " ", "total", " ", "=", " ", "5", ";">>

\* C10: the output has as many lines as the input, and each output line is
\* the input line itself or the input line with `let ` put right after its
\* leading whitespace.
C10_LineStructureKept ==
    step = 1 =>
        /\ LineCount(content) = LineCount(original)
        /\ \A i \in 1..LineCount(original) :
              LET l == Line(original, i)
              IN  \/ Line(content, i) = l
                  \/ Line(content, i) = WithLet(l)

C10_Witness ==
    /\ step = 1
    /\ LineCount(original) = 2
    /\ Line(content, 1) = Line(original, 1)
    /\ Rest(Line(original, 1)) # <<>>
    /\ Lead(Line(original, 2)) > 0
    /\ Line(content, 2) = WithLet(Line(original, 2))
    /\ Line(content, 2) # Line(original, 2)

-----------------------------------------------------------------------------
(* The pipeline run on its own output                                       *)

\* C2: running both fixers on their own output changes nothing, so every
\* call of fix_file after the first finds the text equal to what it read,
\* writes nothing and reports skipped.
C2_Idempotent ==
    step >= 2 => (content = original /\ ~wrote[step])

C2_Witness ==
    /\ step = 2
    /\ wrote[1]
    /\ HasNewline(content)

-----------------------------------------------------------------------------
(* File Processor and Batch Driver                                          *)

Dir == DOMAIN disk0

\* The files whose text the two fixers would change.
NeedChange == {f \in Dir : Fix(disk0[f]) # disk0[f]}

\* The files whose text on disk is no longer what it was before the run.
Differ == {f \in Dir : disk[f] # disk0[f]}

Failed == {f \in Dir : status[f] \in {"read_error", "write_error"}}

\* C7 (as stated): with N files of which K need changes, the summary is
\* total = N, fixed = K, skipped = N - K, and exactly K files differ on disk.
C7_SummaryCountsNeeded ==
    pc = "done" =>
        /\ summary.total = Cardinality(Dir)
        /\ summary.fixed = Cardinality(NeedChange)
        /\ summary.skipped = Cardinality(Dir) - Cardinality(NeedChange)
        /\ Cardinality(Differ) = Cardinality(NeedChange)

\* C7 (amended): the summary is total = N, fixed = the number of files
\* reported fixed, skipped = total - fixed (files reported as errors are in
\* the skipped count); when no file raised an error, fixed = K and exactly
\* the K files that needed changes differ on disk.
C7_SummaryCounts ==
    pc = "done" =>
        /\ summary.total = Cardinality(Dir)
        /\ summary.fixed = Cardinality({f \in Dir : status[f] = "fixed"})
        /\ summary.skipped + summary.fixed = summary.total
        /\ Failed = {} =>
              /\ summary.fixed = Cardinality(NeedChange)
              /\ Differ = NeedChange

C7_Witness ==
    /\ pc = "done"
    /\ Failed = {}
    /\ summary.total = 2
    /\ summary.fixed = 1
    /\ summary.skipped = 1

\* C8: a file whose read fails is reported as an error, is not written and
\* not counted as fixed, and the batch goes on: files are processed in
\* increasing path order, each once, and the run ends only when all were.
C8_ReadErrorIsolated ==
    /\ \A f \in Dir : status[f] = "read_error" => (writes[f] = 0 /\ disk[f] = disk0[f])
    /\ fixed_count = Cardinality({f \in Dir : status[f] = "fixed"})
    /\ \A i \in DOMAIN log : \A j \in DOMAIN log : i < j => LexLess(log[i], log[j])
    /\ \A i \in DOMAIN log : \A f \in Dir : LexLess(f, log[i]) => \E j \in 1..(i - 1) : log[j] = f
    /\ pc = "done" => {log[i] : i \in DOMAIN log} = Dir

C8_Witness ==
    /\ pc = "done"
    /\ Len(log) = 2
    /\ status[log[1]] = "read_error"
    /\ Fix(disk0[log[1]]) # disk0[log[1]]
    /\ status[log[2]] = "fixed"

\* C9: a file is opened for writing at most once, and only when the fixed
\* text differs from the text read; when they are equal the file is not
\* written, keeps its content, and is reported skipped, not fixed.
C9_WriteOnlyOnChange ==
    \A f \in Dir :
        /\ writes[f] <= 1
        /\ writes[f] = 1 => f \in NeedChange
        /\ (f \notin NeedChange /\ status[f] \notin {"none", "read_error"}) =>
              (writes[f] = 0 /\ disk[f] = disk0[f] /\ status[f] = "skipped")

C9_Witness ==
    /\ pc = "done"
    /\ \E f \in Dir : status[f] = "skipped" /\ writes[f] = 0 /\ disk0[f] # <<>>
    /\ \E f \in Dir : status[f] = "fixed" /\ writes[f] = 1 /\ disk[f] = Fix(disk0[f])

====
